---- MODULE Spec2Model ----
(***************************************************************************)
(* A model of src/main.py: the silence remover's worker thread             *)
(* (VideoProcessor.run, VideoProcessor.process_video_segments) and the     *)
(* start button of its window (MainWindow.process_video).                  *)
(*                                                                         *)
(* Times are integers.  In SpecSegments they are the numbers handed to     *)
(* process_video_segments; in Spec the detector's milliseconds are         *)
(* multiples of 1000, so that the division by 1000 of run is exact.        *)
(***************************************************************************)
EXTENDS Integers, Sequences, FiniteSets, TLC

\* ------------------------------------------------------------------ bounds

\* Largest time (in seconds) of an interval end or of a total duration
\* handed directly to process_video_segments (SpecSegments).
MaxT == 3
\* Largest number of silence intervals handed to process_video_segments.
MaxLen == 3
\* Number of VideoProcessor objects the window creates in one behaviour.
MaxJobs == 2
\* Longest decoded audio, in seconds (len(audio) is MaxDur * 1000 at most).
MaxDur == 1
\* Number of lines the window's log is explored to: a line is appended
\* only to a log shorter than this.
MaxLog == 2

\* ------------------------------------------------- process_video_segments

\* line 70: last_end = 0
InitialLastEndOne == 0 + 1
InitialLastEnd == 0

\* line 73: if start > last_end
EmitsGapOrEmpty(start, last_end) == start >= last_end
EmitsGap(start, last_end) == start > last_end

\* line 75: last_end = end
NextLastEndStart(last_end, start, end) == start
NextLastEnd(last_end, start, end) == end

\* line 77: if last_end < total_duration
HasTailOrEmpty(last_end, total_duration) == last_end <= total_duration
HasTail(last_end, total_duration) == last_end < total_duration

\* lines 72-75: the for loop, from interval i on; the result is
\* <<segments, last_end>> as they stand after the loop.
RECURSIVE Loop(_, _, _, _)
Loop(silence_ranges, i, segments, last_end) ==
    IF i > Len(silence_ranges)
    THEN <<segments, last_end>>
    ELSE LET start == silence_ranges[i][1]
             end   == silence_ranges[i][2]
         IN  Loop(silence_ranges, i + 1,
                  IF EmitsGap(start, last_end)
                  THEN Append(segments, <<last_end, start>>)
                  ELSE segments,
                  NextLastEnd(last_end, start, end))

\* lines 69-78: the keep segments of process_video_segments.
Segments(silence_ranges, total_duration) ==
    LET after == Loop(silence_ranges, 1, <<>>, InitialLastEnd)
        segments == after[1]
        last_end == after[2]
    IN  IF HasTail(last_end, total_duration)
        THEN Append(segments, <<last_end, total_duration>>)
        ELSE segments

\* The complement pass of spec.md 4.1, which sets lastEnd = max(lastEnd, end).
Max(a, b) == IF a >= b THEN a ELSE b

RECURSIVE LoopMax(_, _, _, _)
LoopMax(silence_ranges, i, segments, last_end) ==
    IF i > Len(silence_ranges)
    THEN <<segments, last_end>>
    ELSE LET start == silence_ranges[i][1]
             end   == silence_ranges[i][2]
         IN  LoopMax(silence_ranges, i + 1,
                     IF start > last_end
                     THEN Append(segments, <<last_end, start>>)
                     ELSE segments,
                     Max(last_end, end))

SegmentsMax(silence_ranges, total_duration) ==
    LET after == LoopMax(silence_ranges, 1, <<>>, 0)
    IN  IF after[2] < total_duration
        THEN Append(after[1], <<after[2], total_duration>>)
        ELSE after[1]

\* ------------------------------------------------------- interval sequences

\* An interval with start < end, both in lo..hi.
Intervals(lo, hi) == {iv \in (lo..hi) \X (lo..hi) : iv[1] < iv[2]}

\* Every sequence of at most n elements of S.
SeqsUpTo(S, n) == UNION {[1..k -> S] : k \in 0..n}

\* Ascending and pairwise non-overlapping, each interval with start < end.
Ordered(s) ==
    /\ \A i \in 1..Len(s) : s[i][1] < s[i][2]
    /\ \A i \in 1..(Len(s) - 1) : s[i][2] <= s[i + 1][1]

\* Ordered, and no two consecutive intervals touch.
Merged(s) ==
    /\ Ordered(s)
    /\ \A i \in 1..(Len(s) - 1) : s[i][2] < s[i + 1][1]

\* Every interval lies inside [0, t].
Inside(s, t) == \A i \in 1..Len(s) : 0 <= s[i][1] /\ s[i][2] <= t

\* How many intervals of s cover the unit cell [p, p + 1).
Cover(s, p) == Cardinality({i \in 1..Len(s) : s[i][1] <= p /\ p < s[i][2]})

VARIABLES
    arg_ranges,      \* SpecSegments: the silence_ranges argument
    arg_total,       \* SpecSegments: the total_duration argument
    keep,            \* SpecSegments: the segments of the call, "none" before it
    keep_again,      \* SpecSegments: the segments of the pass over keep
    keep_max         \* SpecSegments: the segments of the max form

pure_vars == <<arg_ranges, arg_total, keep, keep_again, keep_max>>


\* ---------------------------------------------------------------- the program

VARIABLES
    \* MainWindow
    input_path,      \* self.input_path.text()
    output_path,     \* self.output_path.text()
    threshold,       \* self.threshold.text()
    min_silence,     \* self.min_silence.text()
    log,             \* self.log: the lines appended so far
    processor,       \* self.processor: the job last created, 0 before the first
    \* VideoProcessor j
    pc,              \* where job j stands in run; "new" before it is created
    job,             \* the attributes __init__ sets
    audio,           \* run's local audio
    silence_ranges,  \* run's local silence_ranges (milliseconds)
    segments,        \* process_video_segments' local segments
    err,             \* the exception raised last
    emitted,         \* the signals job j has emitted, in order
    calls,           \* the collaborator calls job j has made, in order
    queue,           \* the signals of job j the window has yet to take
    \* the file system
    temp_audio       \* the file 'temp_audio.wav'

fields == <<input_path, output_path, threshold, min_silence>>
window_vars == <<fields, log, processor>>
worker_vars == <<pc, job, audio, silence_ranges, segments, err, emitted, calls,
                 queue>>
prog_vars == <<window_vars, worker_vars, temp_audio>>
vars == <<pure_vars, prog_vars>>

Procs == 1..MaxJobs

\* What the user can pick or type.
VideoFiles == {"in.mp4"}
OutputFiles == {"out.mp4"}
ThresholdTexts == {"-40", "abc"}
MinSilenceTexts == {"500"}

\* int(text), lines 266-267: the texts int() accepts, and their values.
IsInt(text) == text \in {"-40", "500"}
ToInt(text) == IF text = "-40" THEN -40 ELSE 500

\* str(n) of the f-string of line 85.
Str(n) == <<"0", "1", "2", "3", "4", "5", "6", "7", "8", "9">>[n + 1]

\* No file, and a file holding ms milliseconds of audio written by job j.
NoFile == [by |-> 0, len |-> 0]
File(j, ms) == [by |-> j, len |-> ms]
\* A temp_audio.wav that was in the working directory before the window opened.
StaleFile == [by |-> 0, len |-> 1000]

NoJob == [input_path |-> "", output_path |-> "", threshold |-> 0,
          min_silence_len |-> 0, running |-> FALSE]

\* The messages, lines 38, 47, 60, 62, 81, 85, 260, 270, 271, in ASCII: the
\* accents are dropped and the three symbols are written (!), > and (v).
MsgExtract == "Extraindo audio do video..."
MsgAnalyse == "Analisando silencios..."
MsgDone == "Processamento concluido!"
MsgError(e) == "Erro critico: " \o e
MsgCopy == "Nenhum silencio detectado! Copiando video original..."
MsgAssemble(n) == "Montando video com " \o Str(n) \o " segmentos..."
Warning == "(!) Selecione os caminhos de entrada e saida!"
LogLine(msg) == "> " \o msg
Ready == "(v) Pronto!"

\* The failures of the collaborators, as str(e) gives them.
Errors == {"ffmpeg error", "could not read temp_audio.wav",
           "detect_silence failed", "copyfile failed"}
ErrorMsgs == {MsgError(e) : e \in Errors}

UpdateLog(msg) == [sig |-> "update_log", msg |-> msg]
Finished == [sig |-> "finished", msg |-> ""]

Call(op) == [op |-> op, inputs |-> <<>>]

ProgInit ==
    /\ input_path = ""
    /\ output_path = ""
    /\ threshold = "-40"
    /\ min_silence = "500"
    /\ log = <<>>
    /\ processor = 0
    /\ pc = [j \in Procs |-> "new"]
    /\ job = [j \in Procs |-> NoJob]
    /\ audio = [j \in Procs |-> NoFile]
    /\ silence_ranges = [j \in Procs |-> <<>>]
    /\ segments = [j \in Procs |-> <<>>]
    /\ err = [j \in Procs |-> ""]
    /\ emitted = [j \in Procs |-> <<>>]
    /\ calls = [j \in Procs |-> <<>>]
    /\ queue = [j \in Procs |-> <<>>]
    /\ temp_audio \in {NoFile, StaleFile}

\* ------------------------------------------------------------ VideoProcessor

\* signal.emit(...), lines 23-25: the signal joins those job j has emitted
\* and, the window living in another thread, waits until the window's event
\* loop takes it.
Emit(j, m) ==
    /\ emitted' = [emitted EXCEPT ![j] = Append(@, m)]
    /\ queue' = [queue EXCEPT ![j] = Append(@, m)]

NoEmit == UNCHANGED <<emitted, queue>>

\* A statement of the try block raises e: control goes to line 61.
RaiseRetry(j, e) ==
    /\ pc' = [pc EXCEPT ![j] = "extract"]
    /\ err' = [err EXCEPT ![j] = e]
Raise(j, e) ==
    /\ pc' = [pc EXCEPT ![j] = "except"]
    /\ err' = [err EXCEPT ![j] = e]

\* The statement completes: control goes on to the next one.
Goto(j, label) ==
    /\ pc' = [pc EXCEPT ![j] = label]
    /\ err' = err

Invoke(j, c) == calls' = [calls EXCEPT ![j] = Append(@, c)]

\* lines 56-57: start/1000, end/1000 and len(audio)/1000.
ToSeconds(ms) == ms \div 1000
RangesToSeconds(ranges) ==
    [i \in 1..Len(ranges) |-> <<ToSeconds(ranges[i][1]), ToSeconds(ranges[i][2])>>]

\* What silence.detect_silence may return for audio of len_ms milliseconds:
\* ascending, non-overlapping [start, end] pairs inside the audio.
DetectorRanges(len_ms) ==
    LET n == len_ms \div 1000
        ivs == {<<1000 * iv[1], 1000 * iv[2]>> : iv \in Intervals(0, n)}
    IN  {r \in SeqsUpTo(ivs, n) : Ordered(r)}

\* line 80: if not segments
TakesShortcutNoSilence(ranges, segs) == ranges = <<>>
TakesShortcut(ranges, segs) == segs = <<>>

\* line 89: ffmpeg.input(self.input_path, ss=seg[0], t=seg[1]-seg[0])
Inputs(segs) == [i \in 1..Len(segs) |-> <<segs[i][1], segs[i][2] - segs[i][1]>>]

\* line 38
LogExtract(j) ==
    /\ pc[j] = "run"
    /\ Emit(j, UpdateLog(MsgExtract))
    /\ Goto(j, "extract")
    /\ UNCHANGED <<window_vars, job, audio, silence_ranges, segments, calls,
                   temp_audio, pure_vars>>

\* lines 39-45: ffmpeg decodes the input's audio into temp_audio.wav,
\* overwriting it; a failed run may leave a file behind or none.
Extract(j) ==
    /\ pc[j] = "extract"
    /\ Invoke(j, Call("ffmpeg_extract"))
    /\ \E ms \in {1000 * t : t \in 0..MaxDur} :
         \/ /\ temp_audio' = File(j, ms)
            /\ Goto(j, "log_analyse")
         \/ /\ temp_audio' \in {temp_audio, File(j, ms)}
            /\ Raise(j, "ffmpeg error")
    /\ NoEmit
    /\ UNCHANGED <<window_vars, job, audio, silence_ranges, segments,
                   pure_vars>>

\* line 47
LogAnalyse(j) ==
    /\ pc[j] = "log_analyse"
    /\ Emit(j, UpdateLog(MsgAnalyse))
    /\ Goto(j, "from_wav")
    /\ UNCHANGED <<window_vars, job, audio, silence_ranges, segments, calls,
                   temp_audio, pure_vars>>

\* line 48: AudioSegment.from_wav reads whatever temp_audio.wav holds now.
FromWav(j) ==
    /\ pc[j] = "from_wav"
    /\ Invoke(j, Call("from_wav"))
    /\ \/ /\ temp_audio # NoFile
          /\ audio' = [audio EXCEPT ![j] = temp_audio]
          /\ Goto(j, "detect")
       \/ /\ audio' = audio
          /\ Raise(j, "could not read temp_audio.wav")
    /\ NoEmit
    /\ UNCHANGED <<window_vars, job, silence_ranges, segments, temp_audio,
                   pure_vars>>

\* lines 49-53
Detect(j) ==
    /\ pc[j] = "detect"
    /\ Invoke(j, Call("detect_silence"))
    /\ \/ \E r \in DetectorRanges(audio[j].len) :
            /\ silence_ranges' = [silence_ranges EXCEPT ![j] = r]
            /\ Goto(j, "segments")
       \/ /\ silence_ranges' = silence_ranges
          /\ Raise(j, "detect_silence failed")
    /\ NoEmit
    /\ UNCHANGED <<window_vars, job, audio, segments, temp_audio, pure_vars>>

\* lines 55-58 and 69-85: the call of process_video_segments, up to the
\* message that announces the copy or the splice.
ComputeSegments(j) ==
    /\ pc[j] = "segments"
    /\ LET ranges == RangesToSeconds(silence_ranges[j])
           segs == Segments(ranges, ToSeconds(audio[j].len))
       IN  /\ segments' = [segments EXCEPT ![j] = segs]
           /\ IF TakesShortcut(ranges, segs)
              THEN /\ Emit(j, UpdateLog(MsgCopy))
                   /\ Goto(j, "copyfile")
              ELSE /\ Emit(j, UpdateLog(MsgAssemble(Len(segs))))
                   /\ Goto(j, "concat")
    /\ UNCHANGED <<window_vars, job, audio, silence_ranges, calls, temp_audio,
                   pure_vars>>

\* lines 82-83: shutil.copyfile(self.input_path, self.output_path); return
CopyFile(j) ==
    /\ pc[j] = "copyfile"
    /\ Invoke(j, Call("copyfile"))
    /\ \/ Goto(j, "log_done")
       \/ Raise(j, "copyfile failed")
    /\ NoEmit
    /\ UNCHANGED <<window_vars, job, audio, silence_ranges, segments,
                   temp_audio, pure_vars>>

\* lines 87-101: one input per segment, concatenated and encoded by ffmpeg.
Concat(j) ==
    /\ pc[j] = "concat"
    /\ Invoke(j, [op |-> "ffmpeg_concat", inputs |-> Inputs(segments[j])])
    /\ \/ Goto(j, "log_done")
       \/ Raise(j, "ffmpeg error")
    /\ NoEmit
    /\ UNCHANGED <<window_vars, job, audio, silence_ranges, segments,
                   temp_audio, pure_vars>>

\* line 60
LogDone(j) ==
    /\ pc[j] = "log_done"
    /\ Emit(j, UpdateLog(MsgDone))
    /\ Goto(j, "finally")
    /\ UNCHANGED <<window_vars, job, audio, silence_ranges, segments, calls,
                   temp_audio, pure_vars>>

\* lines 61-62
Except(j) ==
    /\ pc[j] = "except"
    /\ Emit(j, UpdateLog(MsgError(err[j])))
    /\ Goto(j, "finally")
    /\ UNCHANGED <<window_vars, job, audio, silence_ranges, segments, calls,
                   temp_audio, pure_vars>>

\* line 64: if os.path.exists(audio_path)
FinallyExistsOnSuccess(j) ==
    /\ pc[j] = "finally"
    /\ IF temp_audio # NoFile /\ err[j] = ""
       THEN Goto(j, "remove")
       ELSE Goto(j, "emit_finished")
    /\ NoEmit
    /\ UNCHANGED <<window_vars, job, audio, silence_ranges, segments, calls,
                   temp_audio, pure_vars>>
FinallyExists(j) ==
    /\ pc[j] = "finally"
    /\ IF temp_audio # NoFile
       THEN Goto(j, "remove")
       ELSE Goto(j, "emit_finished")
    /\ NoEmit
    /\ UNCHANGED <<window_vars, job, audio, silence_ranges, segments, calls,
                   temp_audio, pure_vars>>

\* line 65: os.remove(audio_path) raises FileNotFoundError when the file is
\* gone by now; the exception leaves run, and line 66 is not reached.
Remove(j) ==
    /\ pc[j] = "remove"
    /\ IF temp_audio # NoFile
       THEN /\ temp_audio' = NoFile
            /\ Goto(j, "emit_finished")
       ELSE /\ temp_audio' = temp_audio
            /\ pc' = [pc EXCEPT ![j] = "raised"]
            /\ err' = [err EXCEPT ![j] = "FileNotFoundError"]
    /\ NoEmit
    /\ UNCHANGED <<window_vars, job, audio, silence_ranges, segments, calls,
                   pure_vars>>

\* line 66
EmitFinished(j) ==
    /\ pc[j] = "emit_finished"
    /\ Emit(j, Finished)
    /\ Goto(j, "done")
    /\ UNCHANGED <<window_vars, job, audio, silence_ranges, segments, calls,
                   temp_audio, pure_vars>>

\* VideoProcessor.run, one statement at a time.
run(j) ==
    \/ LogExtract(j)
    \/ Extract(j)
    \/ LogAnalyse(j)
    \/ FromWav(j)
    \/ Detect(j)
    \/ ComputeSegments(j)
    \/ CopyFile(j)
    \/ Concat(j)
    \/ LogDone(j)
    \/ Except(j)
    \/ FinallyExists(j)
    \/ Remove(j)
    \/ EmitFinished(j)

\* ---------------------------------------------------------------- MainWindow

\* The VideoProcessor a press creates: the first not yet constructed.
NewJob == CHOOSE j \in Procs : pc[j] = "new" /\ \A k \in 1..(j - 1) : pc[k] # "new"

\* lines 27-33 and 272: VideoProcessor(...) and start().
Start ==
    /\ job' = [job EXCEPT ![NewJob] =
                 [input_path |-> input_path, output_path |-> output_path,
                  threshold |-> ToInt(threshold),
                  min_silence_len |-> ToInt(min_silence), running |-> TRUE]]
    /\ processor' = NewJob
    /\ pc' = [pc EXCEPT ![NewJob] = "run"]
    /\ UNCHANGED <<fields, audio, silence_ranges, segments, err, emitted,
                   calls, queue, temp_audio, pure_vars>>

\* lines 248-251
browse_input ==
    /\ \E file \in VideoFiles \cup {""} :
         input_path' = IF file # "" THEN file ELSE input_path
    /\ UNCHANGED <<output_path, threshold, min_silence, log, processor,
                   worker_vars, temp_audio, pure_vars>>

\* lines 253-256
browse_output ==
    /\ \E file \in OutputFiles \cup {""} :
         output_path' = IF file # "" THEN file ELSE output_path
    /\ UNCHANGED <<input_path, threshold, min_silence, log, processor,
                   worker_vars, temp_audio, pure_vars>>

\* The user types into one of the four line edits (lines 206, 214, 232, 233).
edit_text ==
    /\ \/ /\ input_path' \in VideoFiles \cup {""}
          /\ UNCHANGED <<output_path, threshold, min_silence>>
       \/ /\ output_path' \in OutputFiles \cup {""}
          /\ UNCHANGED <<input_path, threshold, min_silence>>
       \/ /\ threshold' \in ThresholdTexts
          /\ UNCHANGED <<input_path, output_path, min_silence>>
       \/ /\ min_silence' \in MinSilenceTexts
          /\ UNCHANGED <<input_path, output_path, threshold>>
    /\ UNCHANGED <<log, processor, worker_vars, temp_audio, pure_vars>>

\* process_video refusing a press while a job runs.
process_video_serial ==
    /\ \A j \in Procs : pc[j] \in {"new", "done", "raised"}
    /\ input_path # "" /\ output_path # ""
    /\ IsInt(threshold) /\ IsInt(min_silence)
    /\ \E j \in Procs : pc[j] = "new"
    /\ log' = log
    /\ Start

\* process_video without the return of line 261.
process_video_no_return ==
    /\ \E j \in Procs : pc[j] = "new"
    /\ log' = Append(log, Warning)
    /\ Start

\* lines 258-272
process_video ==
    \/ \* lines 259-261
       /\ input_path = "" \/ output_path = ""
       /\ Len(log) < MaxLog
       /\ log' = Append(log, Warning)
       /\ UNCHANGED <<fields, processor, worker_vars, temp_audio, pure_vars>>
    \/ \* lines 266-267: int() raises ValueError, which leaves the slot
       \* before anything is assigned
       /\ input_path # "" /\ output_path # ""
       /\ ~(IsInt(threshold) /\ IsInt(min_silence))
       /\ UNCHANGED vars
    \/ \* lines 263-272
       /\ input_path # "" /\ output_path # ""
       /\ IsInt(threshold) /\ IsInt(min_silence)
       /\ \E j \in Procs : pc[j] = "new"
       /\ log' = log
       /\ Start

\* lines 270-271: the window's event loop takes the oldest signal of job j
\* it has not taken yet and runs the slot connected to it.
Deliver(j) ==
    /\ queue[j] # <<>>
    /\ Len(log) < MaxLog
    /\ log' = Append(log, IF Head(queue[j]).sig = "update_log"
                          THEN LogLine(Head(queue[j]).msg)
                          ELSE Ready)
    /\ queue' = [queue EXCEPT ![j] = Tail(@)]
    /\ UNCHANGED <<fields, processor, pc, job, audio, silence_ranges,
                   segments, err, emitted, calls, temp_audio, pure_vars>>

Init ==
    /\ ProgInit
    /\ arg_ranges = <<>>
    /\ arg_total = 0
    /\ keep = <<>>
    /\ keep_again = <<>>
    /\ keep_max = <<>>

Next ==
    \/ browse_input
    \/ browse_output
    \/ edit_text
    \/ process_video
    \/ \E j \in Procs : Deliver(j)
    \/ \E j \in Procs : run(j)

Spec == Init /\ [][Next]_vars

\* ------------------------------------------- process_video_segments alone

None == <<<<-1, -1>>>>

InitSegments ==
    /\ ProgInit
    /\ arg_ranges \in SeqsUpTo(Intervals(0, MaxT), MaxLen)
    /\ arg_total \in 0..MaxT
    /\ keep = None
    /\ keep_again = None
    /\ keep_max = None

\* process_video_segments(arg_ranges, arg_total), lines 69-78.
CallSegments ==
    /\ keep = None
    /\ keep' = Segments(arg_ranges, arg_total)
    /\ UNCHANGED <<arg_ranges, arg_total, keep_again, keep_max, prog_vars>>

\* The same pass over its own result, against the same total duration.
CallSegmentsAgain ==
    /\ keep # None
    /\ keep_again = None
    /\ keep_again' = Segments(keep, arg_total)
    /\ UNCHANGED <<arg_ranges, arg_total, keep, keep_max, prog_vars>>

\* The max form of spec.md over the same arguments.
CallSegmentsMax ==
    /\ keep # None
    /\ keep_max = None
    /\ keep_max' = SegmentsMax(arg_ranges, arg_total)
    /\ UNCHANGED <<arg_ranges, arg_total, keep, keep_again, prog_vars>>

NextSegments == CallSegments \/ CallSegmentsAgain \/ CallSegmentsMax

SpecSegments == InitSegments /\ [][NextSegments]_vars

\* ------------------------------------------------------------------ claims

\* The keep segments k and the silence intervals s split [0, t): every keep
\* segment has start < end, no two keep segments overlap, every unit cell of
\* [0, t) is covered by exactly one interval of the two lists, and no
\* interval of either list reaches outside [0, t].
Partition(s, k, t) ==
    /\ \A i \in 1..Len(k) : k[i][1] < k[i][2]
    /\ \A i, j \in 1..Len(k) :
         i < j => (k[i][2] <= k[j][1] \/ k[j][2] <= k[i][1])
    /\ \A p \in 0..(t - 1) : Cover(k, p) + Cover(s, p) = 1
    /\ Inside(k, t)
    /\ Inside(s, t)

\* C1 as stated: for every ascending, non-overlapping silence list and every
\* total duration, the keep segments and the silence intervals split [0, T).
C1_PartitionAnyRanges ==
    (keep # None /\ Ordered(arg_ranges))
        => Partition(arg_ranges, keep, arg_total)

\* C1 as amended: for every ascending, non-overlapping silence list that lies
\* inside [0, T], the keep segments and the silence intervals split [0, T).
C1_PartitionInside ==
    (keep # None /\ Ordered(arg_ranges) /\ Inside(arg_ranges, arg_total))
        => Partition(arg_ranges, keep, arg_total)

C1_Witness ==
    /\ keep # None
    /\ Ordered(arg_ranges) /\ Inside(arg_ranges, arg_total)
    /\ Len(arg_ranges) >= 1
    /\ Len(keep) >= 2

\* C2: for a merged silence list inside [0, T], the pass over the keep
\* segments of the pass gives the silence list back.
C2_RoundTrip ==
    (keep_again # None /\ Merged(arg_ranges) /\ Inside(arg_ranges, arg_total))
        => keep_again = arg_ranges

C2_Witness ==
    /\ keep_again # None
    /\ Merged(arg_ranges) /\ Inside(arg_ranges, arg_total)
    /\ Len(arg_ranges) = 2
    /\ Len(keep) >= 1
    /\ keep_again = arg_ranges

\* C4: with no silence interval the pass yields the one segment (0, T) when
\* T > 0 and no segment when T = 0.
C4_EmptySilence ==
    (keep # None /\ arg_ranges = <<>>)
        => keep = IF arg_total > 0 THEN <<<<0, arg_total>>>> ELSE <<>>

C4_Witness ==
    /\ arg_ranges = <<>>
    /\ arg_total > 0
    /\ keep = <<<<0, arg_total>>>>

\* C9: on an ascending, non-overlapping silence list the pass with
\* last_end = end yields the segments of the pass with max(last_end, end).
C9_PlainEqualsMax ==
    (keep # None /\ keep_max # None /\ Ordered(arg_ranges))
        => keep = keep_max

C9_Witness ==
    /\ keep # None /\ keep_max # None
    /\ Ordered(arg_ranges)
    /\ Len(arg_ranges) >= 2
    /\ keep = keep_max
    /\ keep # <<>>

\* What job j has asked of its collaborators.
Ops(j) == [i \in 1..Len(calls[j]) |-> calls[j][i].op]
Called(j, op) == \E i \in 1..Len(calls[j]) : calls[j][i].op = op

\* The keep segments of job j's silence ranges and audio.
KeepOf(j) ==
    Segments(RangesToSeconds(silence_ranges[j]), ToSeconds(audio[j].len))

\* Job j has decided between the copy and the splice.
Decided(j) ==
    \/ pc[j] \in {"copyfile", "concat", "log_done"}
    \/ Called(j, "copyfile")
    \/ Called(j, "ffmpeg_concat")

\* C3: the copy is taken exactly when there is no keep segment; one silence
\* interval (0, T) takes it, and no silence with T > 0 splices (0, T).
C3_ShortcutIffNoSegments ==
    \A j \in Procs :
        /\ Decided(j) =>
             /\ (pc[j] = "copyfile" \/ Called(j, "copyfile")) <=> KeepOf(j) = <<>>
             /\ (pc[j] = "concat" \/ Called(j, "ffmpeg_concat")) <=> KeepOf(j) # <<>>
        /\ Called(j, "copyfile") => ~Called(j, "ffmpeg_concat")
        /\ (Decided(j) /\ audio[j].len > 0
                /\ silence_ranges[j] = <<<<0, audio[j].len>>>>)
             => ~Called(j, "ffmpeg_concat") /\ pc[j] # "concat"
        /\ (Called(j, "ffmpeg_concat") /\ silence_ranges[j] = <<>>)
             => /\ audio[j].len > 0
                /\ calls[j][Len(calls[j])].inputs
                     = <<<<0, ToSeconds(audio[j].len)>>>>

C3_Witness ==
    \E j, k \in Procs :
        /\ Called(j, "copyfile")
        /\ audio[j].len > 0
        /\ silence_ranges[j] = <<<<0, audio[j].len>>>>
        /\ Called(k, "ffmpeg_concat")
        /\ silence_ranges[k] = <<>>

\* How often job j has emitted m.
Count(j, m) == Cardinality({i \in 1..Len(emitted[j]) : emitted[j][i] = m})
Criticals(j) ==
    Cardinality({i \in 1..Len(emitted[j]) : emitted[j][i].msg \in ErrorMsgs})

\* C5: a run that has ended has emitted finished exactly once and last; if a
\* step failed it has emitted one critical error and no completion message.
C5_FinishedOnceAndLast ==
    \A j \in Procs :
        pc[j] \in {"done", "raised"} =>
            /\ Count(j, Finished) = 1
            /\ emitted[j][Len(emitted[j])] = Finished
            /\ (err[j] # "") =>
                 /\ Criticals(j) = 1
                 /\ Count(j, UpdateLog(MsgDone)) = 0

\* C6: a job that ran with no other job ever created finds temp_audio.wav
\* gone when it emits finished, whichever way it went.
C6_TempAudioGone ==
    \A j \in Procs :
        (pc[j] \in {"emit_finished", "done"} /\ \A k \in Procs \ {j} : pc[k] = "new")
            => temp_audio = NoFile

C6_Witness ==
    /\ pc[1] = "done"
    /\ \A k \in Procs \ {1} : pc[k] = "new"
    /\ Called(1, "from_wav")
    /\ err[1] = "detect_silence failed"
    /\ temp_audio = NoFile

\* C7: with an empty path, no step creates or starts a job or replaces the
\* processor, and the step that appends a line to the log without taking a
\* signal (the press) appends the warning and changes nothing else.
C7_EmptyPathPress ==
    [][(input_path = "" \/ output_path = "") =>
          /\ processor' = processor
          /\ job' = job
          /\ \A j \in Procs : pc[j] = "new" => pc'[j] = "new"
          /\ (log' # log /\ queue' = queue) =>
               /\ log' = Append(log, Warning)
               /\ UNCHANGED <<fields, processor, worker_vars, temp_audio>>
      ]_vars

C7_Witness ==
    /\ input_path = "" \/ output_path = ""
    /\ processor # 0
    /\ Len(log) = 2
    /\ log[1] = LogLine(MsgExtract)
    /\ log[2] = Warning

\* C8: a press with valid fields starts a job whether or not one is running;
\* the jobs share temp_audio.wav.
C8_SecondStartNotPrevented ==
    (/\ input_path # "" /\ output_path # ""
     /\ IsInt(threshold) /\ IsInt(min_silence)
     /\ \E j \in Procs : pc[j] = "new")
        => ENABLED (process_video /\ processor' # processor)

\* Job b has extracted its audio and then read the audio job a wrote over
\* it in between.
C8_Witness ==
    \E a, b \in Procs :
        /\ a # b
        /\ Called(b, "from_wav")
        /\ audio[b].by = a

\* The order of the collaborator calls of one run.
CallOrder == <<{"ffmpeg_extract"}, {"from_wav"}, {"detect_silence"},
               {"copyfile", "ffmpeg_concat"}>>

\* C10: every call a job makes is the next of extraction, reading,
\* detection, copy or splice, so that each is made once and in this order;
\* a job in which a step has failed makes no call.
C10_OrderNoRetry ==
    [][\A j \in Procs :
         calls'[j] # calls[j] =>
           /\ err[j] = ""
           /\ Len(calls[j]) < Len(CallOrder)
           /\ Len(calls'[j]) = Len(calls[j]) + 1
           /\ SubSeq(calls'[j], 1, Len(calls[j])) = calls[j]
           /\ calls'[j][Len(calls'[j])].op \in CallOrder[Len(calls'[j])]
      ]_vars

C10_Witness ==
    \E j \in Procs :
        /\ pc[j] = "done"
        /\ err[j] = "ffmpeg error"
        /\ Ops(j) = <<"ffmpeg_extract">>

====
